---- MODULE Spec2Model ----
(***************************************************************************)
(* A model of casschecker.py: the value encoders, the 9-byte frame header  *)
(* codec, the Payload / Request / Response classes, send_request and the   *)
(* session driven by main, together with the transport and the peer that   *)
(* the socket calls of send_request talk to.                               *)
(*                                                                         *)
(* Bytes objects are sequences of 0..255.  A Python str is a record        *)
(* [unit, times], the code points of `unit` repeated `times` times (the    *)
(* Python expression  unit * times), so that texts whose UTF-8 length is   *)
(* near or beyond a length prefix's range can be named without being laid  *)
(* out.  A call that can raise returns a record [exc, val]: exc = "none"   *)
(* and the value, or the name of the exception raised.                     *)
(***************************************************************************)
EXTENDS Integers, Sequences, FiniteSets, TLC

None == "none"

Ok(v) == [exc |-> None, val |-> v]

Raise(e) == [exc |-> e, val |-> <<>>]

\* ------------------------------------------------------------------ struct
\* The ranges of the struct format characters B, h and i.
UCHAR_MAX == 255

SHRT_MAX == 32767

INT_MAX == 2147483647

InRangeB(v) == v >= 0 /\ v <= UCHAR_MAX

InRangeH(v) == v >= -SHRT_MAX - 1 /\ v <= SHRT_MAX

InRangeI(v) == v >= -INT_MAX - 1 /\ v <= INT_MAX

\* struct.pack('!h', v) for v in range: two's complement, big-endian.
BytesH(v) == << (v % 65536) \div 256, v % 256 >>

\* struct.pack('!i', v) for v in range: two's complement, big-endian.
BytesI(v) ==
  LET low == v % 16777216
      top == IF v >= 0 THEN v \div 16777216 ELSE 256 + (v \div 16777216)
  IN  << top, low \div 65536, (low \div 256) % 256, low % 256 >>

\* struct.unpack('!h', b)[0] of two bytes.
ValueH(b) ==
  IF b[1] >= 128 THEN (b[1] - 256) * 256 + b[2] ELSE b[1] * 256 + b[2]

\* struct.unpack('!i', b)[0] of four bytes.
ValueI(b) ==
  (IF b[1] >= 128 THEN b[1] - 256 ELSE b[1]) * 16777216
    + b[2] * 65536 + b[3] * 256 + b[4]

\* The length of the buffer struct.unpack(_HEADER_FORMAT, ...) requires.
HEADER_SIZE == 9

\* struct.pack(_HEADER_FORMAT, version, flags, stream, opcode, length)
pack_header(version, flags, stream, opcode, length) ==
  IF InRangeB(version) /\ InRangeB(flags) /\ InRangeH(stream)
       /\ InRangeB(opcode) /\ InRangeI(length)
  THEN Ok(<<version, flags>> \o BytesH(stream) \o <<opcode>> \o BytesI(length))
  ELSE Raise("struct.error")

\* struct.unpack(_HEADER_FORMAT, header): raises unless the buffer has
\* exactly calcsize('!BBhBi') = 9 bytes.
unpack_header_padded(header) ==
  LET h == header \o [i \in 1..(HEADER_SIZE - Len(header)) |-> 0] IN
  Ok([version |-> h[1], flags |-> h[2], stream |-> ValueH(SubSeq(h, 3, 4)),
      opecode |-> h[5], length |-> ValueI(SubSeq(h, 6, 9))])

unpack_header(header) ==
  IF Len(header) # HEADER_SIZE THEN Raise("struct.error")
  ELSE Ok([version |-> header[1], flags |-> header[2],
           stream |-> ValueH(SubSeq(header, 3, 4)),
           opecode |-> header[5],
           length |-> ValueI(SubSeq(header, 6, 9))])

\* ------------------------------------------------------------------- enums
OpCodeNames == {"Startup", "Register", "Error", "Ready", "Result", "Query"}

\* OpCode.<name>.value
OpCodeValue(name) ==
  CASE name = "Startup"  -> 1
    [] name = "Register" -> 11
    [] name = "Error"    -> 0
    [] name = "Ready"    -> 2
    [] name = "Result"   -> 8
    [] name = "Query"    -> 7

\* OpCode(value): the member with that value, ValueError when there is none.
OpCode_lenient(value) ==
  IF \E n \in OpCodeNames : OpCodeValue(n) = value
  THEN Ok(CHOOSE n \in OpCodeNames : OpCodeValue(n) = value)
  ELSE Ok("Unknown")

OpCode(value) ==
  IF \E n \in OpCodeNames : OpCodeValue(n) = value
  THEN Ok(CHOOSE n \in OpCodeNames : OpCodeValue(n) = value)
  ELSE Raise("ValueError")

ConsistencyNames ==
  {"Any", "One", "Two", "Three", "Quorun", "All", "LocalQuorum",
   "EachQuorum", "Serial", "LocalSerial", "LocalOne"}

\* Consistency.<name>.value
ConsistencyValue(name) ==
  CASE name = "Any"         -> 0
    [] name = "One"         -> 1
    [] name = "Two"         -> 2
    [] name = "Three"       -> 3
    [] name = "Quorun"      -> 4
    [] name = "All"         -> 5
    [] name = "LocalQuorum" -> 6
    [] name = "EachQuorum"  -> 7
    [] name = "Serial"      -> 8
    [] name = "LocalSerial" -> 9
    [] name = "LocalOne"    -> 10

\* -------------------------------------------------------------------- text
\* str(unit) * times
Text(unit, times) == [unit |-> unit, times |-> times]

\* The bytes (or code points) a [unit, times] value stands for, laid out.
Flat(r) ==
  [i \in 1..(Len(r.unit) * r.times) |-> r.unit[((i - 1) % Len(r.unit)) + 1]]

\* len(x) <= max, computed without laying x out and without leaving the
\* integers of the checker.
LenAtMost(r, max) == Len(r.unit) = 0 \/ r.times <= max \div Len(r.unit)

\* The UTF-8 bytes of one code point (U+0000..U+FFFF, no surrogates).
Utf8Char(c) ==
  IF c < 128 THEN <<c>>
  ELSE IF c < 2048 THEN <<192 + (c \div 64), 128 + (c % 64)>>
  ELSE <<224 + (c \div 4096), 128 + ((c \div 64) % 64), 128 + (c % 64)>>

RECURSIVE Utf8Seq(_)
Utf8Seq(cps) ==
  IF cps = <<>> THEN <<>> ELSE Utf8Char(Head(cps)) \o Utf8Seq(Tail(cps))

\* data.encode(encoding='utf-8'): the encoding of unit * times is the
\* encoding of unit, times times.
encode(data) == [unit |-> Utf8Seq(data.unit), times |-> data.times]

IsCont(b) == b >= 128 /\ b <= 191

\* The length of the UTF-8 sequence a lead byte announces; 0 for a byte that
\* cannot start one.
Utf8Width(b) ==
  IF b < 128 THEN 1
  ELSE IF b >= 194 /\ b <= 223 THEN 2
  ELSE IF b >= 224 /\ b <= 239 THEN 3
  ELSE IF b >= 240 /\ b <= 244 THEN 4
  ELSE 0

\* Whether bytes i..i+w-1 of b are one well-formed UTF-8 sequence, w being
\* the distance to the next byte that is not a continuation byte.
Utf8WellFormed(b, i, w) ==
  /\ Utf8Width(b[i]) = w
  /\ w >= 2 =>
       /\ (b[i] = 224 => b[i + 1] >= 160)
       /\ (b[i] = 237 => b[i + 1] <= 159)
       /\ (b[i] = 240 => b[i + 1] >= 144)
       /\ (b[i] = 244 => b[i + 1] <= 143)

Utf8CodePoint(b, i, w) ==
  CASE w = 1 -> b[i]
    [] w = 2 -> (b[i] - 192) * 64 + (b[i + 1] - 128)
    [] w = 3 -> (b[i] - 224) * 4096 + (b[i + 1] - 128) * 64 + (b[i + 2] - 128)
    [] w = 4 -> (b[i] - 240) * 262144 + (b[i + 1] - 128) * 4096
                  + (b[i + 2] - 128) * 64 + (b[i + 3] - 128)

\* b.decode(encoding='utf-8'), strict: the code points, or UnicodeDecodeError.
decode(b) ==
  LET n      == Len(b)
      starts == SelectSeq([i \in 1..n |-> i], LAMBDA i : ~IsCont(b[i]))
      m      == Len(starts)
      width(k) == (IF k = m THEN n + 1 ELSE starts[k + 1]) - starts[k]
  IN  IF n = 0 THEN Ok(<<>>)
      ELSE IF m = 0 \/ starts[1] # 1
             \/ \E k \in 1..m : ~Utf8WellFormed(b, starts[k], width(k))
      THEN Raise("UnicodeDecodeError")
      ELSE Ok([k \in 1..m |-> Utf8CodePoint(b, starts[k], width(k))])

\* ---------------------------------------------------------------- encoders
byte_to_bytes(data) ==
  IF InRangeB(data) THEN Ok(<<data>>) ELSE Raise("struct.error")

short_to_bytes_wrapping(data) == Ok(BytesH(data))

short_to_bytes(data) ==
  IF InRangeH(data) THEN Ok(BytesH(data)) ELSE Raise("struct.error")

int_to_bytes(data) ==
  IF InRangeI(data) THEN Ok(BytesI(data)) ELSE Raise("struct.error")

\* A length beyond INT_MAX is beyond the range of 'h' and of 'i' alike, so
\* struct.pack raises for it whichever encoder asked.
shortstr_to_bytes(data) ==
  LET d == encode(data) IN
  IF ~LenAtMost(d, INT_MAX) THEN Raise("struct.error")
  ELSE LET prefix == short_to_bytes(Len(d.unit) * d.times) IN
       IF prefix.exc # None THEN prefix ELSE Ok(prefix.val \o Flat(d))

longstr_to_bytes(data) ==
  LET d == encode(data) IN
  IF ~LenAtMost(d, INT_MAX) THEN Raise("struct.error")
  ELSE LET prefix == int_to_bytes(Len(d.unit) * d.times) IN
       IF prefix.exc # None THEN prefix ELSE Ok(prefix.val \o Flat(d))

consistency_to_bytes(data) == short_to_bytes(ConsistencyValue(data))

\* b''.join([shortstr_to_bytes(k) + shortstr_to_bytes(v) for k, v in items]);
\* a dict is the sequence of its <<key, value>> items in insertion order.
RECURSIVE JoinItems(_)
JoinItems(items) ==
  IF items = <<>> THEN Ok(<<>>)
  ELSE LET k == shortstr_to_bytes(Head(items)[1])
           v == shortstr_to_bytes(Head(items)[2])
       IN  IF k.exc # None THEN k
           ELSE IF v.exc # None THEN v
           ELSE LET rest == JoinItems(Tail(items)) IN
                IF rest.exc # None THEN rest
                ELSE Ok(k.val \o v.val \o rest.val)

strstrmap_to_bytes_no_count(data) == JoinItems(data)

strstrmap_to_bytes(data) ==
  LET count == short_to_bytes(Len(data)) IN
  IF count.exc # None THEN count
  ELSE LET joined == JoinItems(data) IN
       IF joined.exc # None THEN joined ELSE Ok(count.val \o joined.val)

\* ---------------------------------------------------------------- messages
\* Payload.__init__: the five fields, and length = len(body).
Payload_length_with_header(version, flags, stream, opcode, body) ==
  [version |-> version, flags |-> flags, stream |-> stream,
   opcode |-> opcode, body |-> body, length |-> HEADER_SIZE + Len(body)]

Payload(version, flags, stream, opcode, body) ==
  [version |-> version, flags |-> flags, stream |-> stream,
   opcode |-> opcode, body |-> body, length |-> Len(body)]

\* The value of a variable that holds no Payload yet.
NoPayload == Payload(0, 0, 0, "none", <<>>)

\* Payload.__bytes__
Payload_bytes(self) ==
  LET header == pack_header(self.version, self.flags, self.stream,
                            OpCodeValue(self.opcode), self.length)
  IN  IF header.exc # None THEN header ELSE Ok(header.val \o self.body)

\* Payload.__str__: the fields the format string shows, in its order.
Payload_str(self, type_name) ==
  [name |-> type_name, version |-> self.version, flags |-> self.flags,
   stream |-> self.stream, opcode |-> self.opcode, length |-> self.length]

\* Request.__init__ with the class attribute __current_stream = cur: the
\* Payload built, and the attribute's value afterwards.
Request_no_increment(cur, opcode, body) ==
  [payload |-> Payload(4, 0, cur, opcode, body), current_stream |-> cur]

Request_wrapping_counter(cur, opcode, body) ==
  [payload |-> Payload(4, 0, cur, opcode, body),
   current_stream |-> (cur + 1) % (SHRT_MAX + 1)]

Request(cur, opcode, body) ==
  [payload |-> Payload(4, 0, cur, opcode, body), current_stream |-> cur + 1]

\* Response.__init__ is Payload.__init__.
Response(version, flags, stream, opcode, body) ==
  Payload(version, flags, stream, opcode, body)

HexDigit(d) ==
  <<"0", "1", "2", "3", "4", "5", "6", "7",
    "8", "9", "a", "b", "c", "d", "e", "f">>[d + 1]

\* The hexadecimal digits of -n, for n <= 0.
RECURSIVE HexMagnitude(_)
HexMagnitude(n) ==
  IF n = 0 THEN <<>>
  ELSE IF n % 16 = 0 THEN HexMagnitude(n \div 16) \o <<"0">>
  ELSE HexMagnitude((n \div 16) + 1) \o <<HexDigit(16 - (n % 16))>>

\* hex(n), as its characters.
hex(n) ==
  IF n = 0 THEN <<"0", "x", "0">>
  ELSE IF n < 0 THEN <<"-", "0", "x">> \o HexMagnitude(n)
  ELSE <<"0", "x">> \o HexMagnitude(-n)

\* b[i:] of a bytes object, 0-based as in the source.
SliceFrom(b, i) == SubSeq(b, i + 1, Len(b))

\* b[:i]
SliceTo(b, i) == SubSeq(b, 1, IF i < Len(b) THEN i ELSE Len(b))

\* Response.__str__: the Payload display, and for an Error the code and the
\* message; struct.unpack raises on a body[:4] of fewer than 4 bytes, decode
\* on bytes that are not UTF-8.
Response_str_keeps_prefix(self) ==
  LET base == Payload_str(self, "Response") IN
  IF self.opcode = "Error"
  THEN IF Len(SliceTo(self.body, 4)) # 4 THEN Raise("struct.error")
       ELSE LET message == decode(SliceFrom(self.body, 4)) IN
            IF message.exc # None THEN message
            ELSE Ok([base |-> base,
                     additional |-> <<hex(ValueI(SliceTo(self.body, 4))),
                                      message.val>>])
  ELSE Ok([base |-> base, additional |-> <<>>])

Response_str(self) ==
  LET base == Payload_str(self, "Response") IN
  IF self.opcode = "Error"
  THEN IF Len(SliceTo(self.body, 4)) # 4 THEN Raise("struct.error")
       ELSE LET message == decode(SliceFrom(self.body, 6)) IN
            IF message.exc # None THEN message
            ELSE Ok([base |-> base,
                     additional |-> <<hex(ValueI(SliceTo(self.body, 4))),
                                      message.val>>])
  ELSE Ok([base |-> base, additional |-> <<>>])

\* The value of a variable that holds no display yet.
NoDisplay == [exc |-> "unset", val |-> <<>>]

\* ----------------------------------------------------------------- session
\* The number of queries the operator types at the prompt before quitting.
MaxPrompts == 1

\* The number of threads that each construct one Request.
NumThreads == 3

Threads == 1..NumThreads

VARIABLES
  pc,              \* where main is: connect, startup, local, peer, prompt,
                   \* recv_header, recv_body (inside send_request), done, raised
  step,            \* the statement of main whose exchange is under way
  sock,            \* the socket of the with statement: open, connected, closed
  current_stream,  \* Request.__current_stream
  streams,         \* the stream ids of the Requests constructed, in order
  line,            \* the last line input() returned
  prompts,         \* how many lines input() has returned
  exc,             \* the exception that ended main, or "none"
  raised_in,       \* the step that raised it
  req,             \* the last Request constructed
  frame,           \* bytes(payload) of the last sock.send call
  sent,            \* the number of bytes that call accepted (its return value)
  nsends,          \* how many times sock.send was called
  outcomes,        \* per send_request call: pending, returned or raised
  hdr,             \* what sock.recv(9) returned in the current exchange
  head,            \* the unpacked header of the current exchange
  resp,            \* the Response the current exchange returned
  shown,           \* str(response) as printed, or the exception it raised
  inbuf,           \* the bytes the peer has sent that are not yet read
  peer,            \* the peer's end of the connection: up, closed, reset
  reply,           \* the last frame the peer sent
  replies,         \* how many frames the peer has sent
  enc,             \* the last encoder call made on its own: [fn, arg, res]
  threads          \* the threads that construct a Request: [pc, stream, seen]

vars ==
  <<pc, step, sock, current_stream, streams, line, prompts, exc, raised_in,
    req, frame, sent, nsends, outcomes, hdr, head, resp, shown,
    inbuf, peer, reply, replies, enc, threads>>

mainVars == <<line, prompts>>

exchangeVars == <<hdr, head, resp, shown>>

peerVars == <<inbuf, peer, reply, replies>>

NoLine == Text(<<>>, 0)

NoHdr == [read |-> FALSE, bytes |-> <<>>]

NoHead == [version |-> 0, flags |-> 0, stream |-> 0, opecode |-> -1, length |-> 0]

NoReply == [opcode |-> -1, length |-> 0, body |-> <<>>, bytes |-> <<>>]

\* A thread that has not called Request(...) yet.
NoThread == [pc |-> "start", stream |-> -1, seen |-> -1]

NoEnc == [fn |-> "none", arg |-> <<>>, res |-> Raise("unset")]

\* The texts of main.
CQL_VERSION == Text(<<67, 81, 76, 95, 86, 69, 82, 83, 73, 79, 78>>, 1)

CQL_VERSION_3 == Text(<<51, 46, 48, 46, 48>>, 1)

SELECT_LOCAL ==
  Text(<<83, 69, 76, 69, 67, 84, 32, 42, 32, 70, 82, 79, 77, 32, 115, 121,
         115, 116, 101, 109, 46, 108, 111, 99, 97, 108>>, 1)

SELECT_PEERS ==
  Text(<<83, 69, 76, 69, 67, 84, 32, 42, 32, 70, 82, 79, 77, 32, 115, 121,
         115, 116, 101, 109, 46, 112, 101, 101, 114, 115>>, 1)

\* The lines the operator may type: "q", "USE x", the empty line, and
\* "é" * 2**30, whose UTF-8 encoding has 2**31 bytes.
Lines ==
  { Text(<<113>>, 1),
    Text(<<85, 83, 69, 32, 120>>, 1),
    Text(<<>>, 1),
    Text(<<233>>, 1073741824) }

\* query.startswith('q')
startswith_q(query) ==
  Len(query.unit) > 0 /\ query.times > 0 /\ query.unit[1] = 113

\* longstr_to_bytes(query) + consistency_to_bytes(Consistency.One)
\*   + byte_to_bytes(0), evaluated left to right.
QueryBody(query) ==
  LET text == longstr_to_bytes(query)
      cons == consistency_to_bytes("One")
      flag == byte_to_bytes(0)
  IN  IF text.exc # None THEN text
      ELSE IF cons.exc # None THEN cons
      ELSE IF flag.exc # None THEN flag
      ELSE Ok(text.val \o cons.val \o flag.val)

\* The opcode and the body expression of the Request each statement builds.
StepOpcode(s) == IF s = "startup" THEN "Startup" ELSE "Query"

StepBody(s, query) ==
  CASE s = "startup" -> strstrmap_to_bytes(<< <<CQL_VERSION, CQL_VERSION_3>> >>)
    [] s = "local"   -> QueryBody(SELECT_LOCAL)
    [] s = "peer"    -> QueryBody(SELECT_PEERS)
    [] s = "prompt"  -> QueryBody(query)

\* The statement of main that follows the exchange of statement s.
NextStep_peers_first(s) ==
  CASE s = "startup" -> "peer"
    [] s = "peer"    -> "local"
    [] s = "local"   -> "prompt"
    [] s = "prompt"  -> "prompt"

NextStep(s) ==
  CASE s = "startup" -> "local"
    [] s = "local"   -> "peer"
    [] s = "peer"    -> "prompt"
    [] s = "prompt"  -> "prompt"

\* Where control is once sock.send has returned: in sock.recv(9).
AfterSend_no_wait(s) == NextStep(s)

AfterSend(s) == "recv_header"

Init ==
  /\ pc = "connect"
  /\ step = "connect"
  /\ sock = "open"
  /\ current_stream = 0
  /\ streams = <<>>
  /\ line = NoLine
  /\ prompts = 0
  /\ exc = None
  /\ raised_in = None
  /\ req = NoPayload
  /\ frame = <<>>
  /\ sent = 0
  /\ nsends = 0
  /\ outcomes = <<>>
  /\ hdr = NoHdr
  /\ head = NoHead
  /\ resp = NoPayload
  /\ shown = NoDisplay
  /\ inbuf = <<>>
  /\ peer = "up"
  /\ reply = NoReply
  /\ replies = 0
  /\ enc = NoEnc
  /\ threads = [t \in Threads |-> NoThread]

\* An exception leaves main through the with statement, which closes sock.
Propagate_leaks_socket(e, where) ==
  /\ pc' = "raised"
  /\ exc' = e
  /\ raised_in' = where
  /\ sock' = sock

Propagate_retries(e, where) ==
  /\ pc' = IF where \in {"recv_header", "unpack", "opcode", "recv_body"}
           THEN step ELSE "raised"
  /\ exc' = e
  /\ raised_in' = where
  /\ sock' = IF where \in {"recv_header", "unpack", "opcode", "recv_body"}
             THEN sock ELSE "closed"

Propagate_loop_goes_on(e, where) ==
  /\ pc' = IF pc = "prompt" THEN "prompt" ELSE "raised"
  /\ exc' = e
  /\ raised_in' = where
  /\ sock' = IF pc = "prompt" THEN sock ELSE "closed"

Propagate(e, where) ==
  /\ pc' = "raised"
  /\ exc' = e
  /\ raised_in' = where
  /\ sock' = "closed"

SetOutcome(o) == outcomes' = [outcomes EXCEPT ![Len(outcomes)] = o]

\* sock.connect((args.host, args.port))
Connect ==
  /\ pc = "connect"
  /\ \E refused \in BOOLEAN :
       IF refused
       THEN Propagate("ConnectionRefusedError", "connect")
       ELSE /\ pc' = "startup"
            /\ sock' = "connected"
            /\ UNCHANGED <<exc, raised_in>>
  /\ UNCHANGED <<step, current_stream, streams, req, frame, sent, nsends,
                 outcomes, enc, threads>>
  /\ UNCHANGED mainVars
  /\ UNCHANGED exchangeVars
  /\ UNCHANGED peerVars

\* One statement of main from the evaluation of the body expression to the
\* return of sock.send in send_request: Request(...), print(payload),
\* bytes(payload), sock.send(...).
Issue(s, query) ==
  LET body == StepBody(s, query) IN
  /\ step' = s
  /\ hdr' = NoHdr
  /\ head' = NoHead
  /\ resp' = NoPayload
  /\ shown' = NoDisplay
  /\ UNCHANGED peerVars
  /\ UNCHANGED <<enc, threads>>
  /\ IF body.exc # None
     THEN /\ Propagate(body.exc, "encode")
          /\ UNCHANGED <<current_stream, streams, req, frame, sent, nsends,
                         outcomes>>
     ELSE LET r == Request(current_stream, StepOpcode(s), body.val)
              b == Payload_bytes(r.payload)
          IN  /\ current_stream' = r.current_stream
              /\ streams' = Append(streams, r.payload.stream)
              /\ req' = r.payload
              /\ IF b.exc # None
                 THEN /\ Propagate(b.exc, "serialize")
                      /\ outcomes' = Append(outcomes, "raised")
                      /\ UNCHANGED <<frame, sent, nsends>>
                 ELSE /\ frame' = b.val
                      /\ nsends' = nsends + 1
                      /\ \/ /\ \E k \in 1..Len(b.val) : sent' = k
                            /\ outcomes' = Append(outcomes, "pending")
                            /\ pc' = AfterSend(s)
                            /\ UNCHANGED <<exc, raised_in, sock>>
                         \/ /\ peer # "up"
                            /\ sent' = 0
                            /\ outcomes' = Append(outcomes, "raised")
                            /\ Propagate(IF peer = "reset"
                                         THEN "ConnectionResetError"
                                         ELSE "BrokenPipeError", "send")

\* startup = Request(OpCode.Startup, ...); __send_request_with_message(...)
Startup ==
  /\ pc = "startup"
  /\ Issue("startup", NoLine)
  /\ UNCHANGED mainVars

\* local = Request(OpCode.Query, ...); __send_request_with_message(...)
QueryLocal ==
  /\ pc = "local"
  /\ Issue("local", NoLine)
  /\ UNCHANGED mainVars

\* peer = Request(OpCode.Query, ...); __send_request_with_message(...)
QueryPeers ==
  /\ pc = "peer"
  /\ Issue("peer", NoLine)
  /\ UNCHANGED mainVars

\* One turn of the while loop whose line does not begin with q.
Prompt ==
  /\ pc = "prompt"
  /\ prompts < MaxPrompts \/ current_stream >= SHRT_MAX
  /\ \E query \in Lines :
       /\ ~startswith_q(query)
       /\ line' = query
       /\ prompts' = prompts + 1
       /\ Issue("prompt", query)

\* The turn of the while loop that reads a line beginning with q: break,
\* and the with statement closes sock.
Quit ==
  /\ pc = "prompt"
  /\ \E query \in Lines :
       /\ startswith_q(query)
       /\ line' = query
  /\ prompts' = prompts + 1
  /\ pc' = "done"
  /\ sock' = "closed"
  /\ UNCHANGED <<step, current_stream, streams, exc, raised_in, req, frame,
                 sent, nsends, outcomes, enc, threads>>
  /\ UNCHANGED exchangeVars
  /\ UNCHANGED peerVars

\* input() at the end of standard input.
EndOfInput ==
  /\ pc = "prompt"
  /\ Propagate("EOFError", "input")
  /\ UNCHANGED <<step, current_stream, streams, req, frame, sent, nsends,
                 outcomes, enc, threads>>
  /\ UNCHANGED mainVars
  /\ UNCHANGED exchangeVars
  /\ UNCHANGED peerVars

\* sock.recv(n) returns as soon as a byte of the peer has arrived, the peer
\* has closed with nothing left to read, or the connection was reset.
RecvReady == inbuf # <<>> \/ peer # "up"

\* The numbers of bytes sock.recv(n) may return, n > 0: at least one and at
\* most n of the bytes sent and not yet read, as many as have arrived when
\* it returns; none at the end of the stream.
RecvCounts(n) ==
  IF inbuf = <<>> THEN {0}
  ELSE 1..(IF n < Len(inbuf) THEN n ELSE Len(inbuf))

\* The rest of send_request and of __send_request_with_message once the body
\* is read: Response(...), return, print(...), and on to the next statement.
Return(h, opcode, body) ==
  LET r == Response(h.version, h.flags, h.stream, opcode, body)
      s == Response_str(r)
  IN  /\ resp' = r
      /\ shown' = s
      /\ SetOutcome("returned")
      /\ IF s.exc # None
         THEN Propagate(s.exc, "display")
         ELSE /\ pc' = NextStep(step)
              /\ UNCHANGED <<exc, raised_in, sock>>

\* header = sock.recv(9); struct.unpack; OpCode(opecode); and the call of
\* sock.recv(length), which returns at once when length <= 0.
RecvHeader ==
  /\ pc = "recv_header"
  /\ RecvReady
  /\ UNCHANGED <<step, current_stream, streams, req, frame, sent, nsends,
                 enc, threads, peer, reply, replies>>
  /\ UNCHANGED mainVars
  /\ IF inbuf = <<>> /\ peer = "reset"
     THEN /\ Propagate("ConnectionResetError", "recv_header")
          /\ SetOutcome("raised")
          /\ UNCHANGED <<inbuf, hdr, head, resp, shown>>
     ELSE \E k \in RecvCounts(HEADER_SIZE) :
          LET header == SubSeq(inbuf, 1, k)
              u == unpack_header(header)
          IN  /\ hdr' = [read |-> TRUE, bytes |-> header]
              /\ inbuf' = SubSeq(inbuf, k + 1, Len(inbuf))
              /\ IF u.exc # None
                 THEN /\ Propagate(u.exc, "unpack")
                      /\ SetOutcome("raised")
                      /\ UNCHANGED <<head, resp, shown>>
                 ELSE LET o == OpCode(u.val.opecode) IN
                      /\ head' = u.val
                      /\ IF o.exc # None
                         THEN /\ Propagate(o.exc, "opcode")
                              /\ SetOutcome("raised")
                              /\ UNCHANGED <<resp, shown>>
                         ELSE IF u.val.length < 0
                         THEN /\ Propagate("ValueError", "recv_body")
                              /\ SetOutcome("raised")
                              /\ UNCHANGED <<resp, shown>>
                         ELSE IF u.val.length = 0
                         THEN Return(u.val, o.val, <<>>)
                         ELSE /\ pc' = "recv_body"
                              /\ UNCHANGED <<exc, raised_in, sock, outcomes,
                                             resp, shown>>

\* body = sock.recv(length) returns, and the rest of the exchange.
RecvBody ==
  /\ pc = "recv_body"
  /\ RecvReady
  /\ UNCHANGED <<step, current_stream, streams, req, frame, sent, nsends,
                 enc, threads, peer, reply, replies, hdr, head>>
  /\ UNCHANGED mainVars
  /\ IF inbuf = <<>> /\ peer = "reset"
     THEN /\ Propagate("ConnectionResetError", "recv_body")
          /\ SetOutcome("raised")
          /\ UNCHANGED <<inbuf, resp, shown>>
     ELSE \E k \in RecvCounts(head.length) :
          /\ inbuf' = SubSeq(inbuf, k + 1, Len(inbuf))
          /\ Return(head, OpCode(head.opecode).val, SubSeq(inbuf, 1, k))

\* -------------------------------------------------------------------- peer
\* A reply frame as the peer lays it out: the 9-byte header, with 0x84 (a
\* response of protocol version 4) as its version byte, and the body.
PeerFrame(stream, opcode, length, body) ==
  [opcode |-> opcode, length |-> length, body |-> body,
   bytes |-> pack_header(132, 0, stream, opcode, length).val \o body]

\* The body of an Error frame: int(code) ++ shortString(message).
ErrorBody(code, message) ==
  int_to_bytes(code).val \o shortstr_to_bytes(message).val

\* The frames the peer may answer a request of stream id `stream` with: Ready,
\* a void Result, an Error (0x2200, "no"), a frame of opcode 0x03, which
\* OpCode does not list, and a frame that declares a negative length.
PeerFrames(stream) ==
  { PeerFrame(stream, 2, 0, <<>>),
    PeerFrame(stream, 8, 4, <<0, 0, 0, 1>>),
    PeerFrame(stream, 0, 8, ErrorBody(8704, Text(<<110, 111>>, 1))),
    PeerFrame(stream, 3, 0, <<>>),
    PeerFrame(stream, 2, -1, <<>>) }

\* The peer answers a request it has received in full and not yet answered.
PeerReply ==
  /\ peer = "up"
  /\ pc \in {"recv_header", "recv_body"}
  /\ sent = Len(frame)
  /\ replies < nsends
  /\ \E f \in PeerFrames(req.stream) :
       /\ reply' = f
       /\ inbuf' = inbuf \o f.bytes
  /\ replies' = replies + 1
  /\ UNCHANGED <<pc, step, sock, current_stream, streams, exc, raised_in, req,
                 frame, sent, nsends, outcomes, peer, enc, threads>>
  /\ UNCHANGED mainVars
  /\ UNCHANGED exchangeVars

\* The peer closes its end; of the bytes not yet read only the first k had
\* been written when it did.
PeerClose ==
  /\ peer = "up"
  /\ sock = "connected"
  /\ peer' = "closed"
  /\ \E k \in 0..Len(inbuf) : inbuf' = SubSeq(inbuf, 1, k)
  /\ UNCHANGED <<pc, step, sock, current_stream, streams, exc, raised_in, req,
                 frame, sent, nsends, outcomes, reply, replies, enc, threads>>
  /\ UNCHANGED mainVars
  /\ UNCHANGED exchangeVars

\* The connection is reset: what was not read is lost.
PeerReset ==
  /\ peer = "up"
  /\ sock = "connected"
  /\ peer' = "reset"
  /\ inbuf' = <<>>
  /\ UNCHANGED <<pc, step, sock, current_stream, streams, exc, raised_in, req,
                 frame, sent, nsends, outcomes, reply, replies, enc, threads>>
  /\ UNCHANGED mainVars
  /\ UNCHANGED exchangeVars

Next ==
  \/ Connect
  \/ Startup
  \/ QueryLocal
  \/ QueryPeers
  \/ Prompt
  \/ Quit
  \/ EndOfInput
  \/ RecvHeader
  \/ RecvBody
  \/ PeerReply
  \/ PeerClose
  \/ PeerReset

Spec == Init /\ [][Next]_vars

\* ---------------------------------------------------- the encoders alone
\* The largest repetition count below the boundary ones.
MaxTimes == 2

\* Integers around the ranges of B, h and i.
EncInts ==
  {-INT_MAX - 1, -32769, -32768, -129, -1, 0, 1, 127, 128, 255, 256,
   32767, 32768, 65535, 65536, INT_MAX}

\* "a", "é", "€" and "aé": units of 1, 2, 3 and 3 UTF-8 bytes.
EncUnits == {<<97>>, <<233>>, <<8364>>, <<97, 233>>}

\* Repetition counts that put the UTF-8 length on both sides of 2**15 and
\* of 2**16.
EncTimes == (0..MaxTimes) \cup {16383, 16384, 32767, 32768, 65535, 65536}

\* "é" * 2**30 and "€" * 2**30: 2**31 and 3 * 2**30 UTF-8 bytes.
HugeTexts == {Text(<<233>>, 1073741824), Text(<<8364>>, 1073741824)}

EncTexts == {Text(u, t) : u \in EncUnits, t \in EncTimes} \cup HugeTexts

EncMaps ==
  { <<>>,
    << <<CQL_VERSION, CQL_VERSION_3>> >>,
    << <<CQL_VERSION, CQL_VERSION_3>>, <<Text(<<233>>, 2), Text(<<>>, 1)>> >>,
    << <<Text(<<97>>, 32768), CQL_VERSION_3>> >> }

Called(fn, arg, res) ==
  /\ enc' = [fn |-> fn, arg |-> arg, res |-> res]
  /\ UNCHANGED threads
  /\ UNCHANGED <<pc, step, sock, current_stream, streams, exc, raised_in, req,
                 frame, sent, nsends, outcomes>>
  /\ UNCHANGED mainVars
  /\ UNCHANGED exchangeVars
  /\ UNCHANGED peerVars

CallByte ==
  /\ enc = NoEnc
  /\ \E v \in EncInts : Called("byte_to_bytes", v, byte_to_bytes(v))

CallShort ==
  /\ enc = NoEnc
  /\ \E v \in EncInts : Called("short_to_bytes", v, short_to_bytes(v))

CallInt ==
  /\ enc = NoEnc
  /\ \E v \in EncInts : Called("int_to_bytes", v, int_to_bytes(v))

CallShortStr ==
  /\ enc = NoEnc
  /\ \E t \in EncTexts : Called("shortstr_to_bytes", t, shortstr_to_bytes(t))

CallLongStr ==
  /\ enc = NoEnc
  /\ \E t \in EncTexts : Called("longstr_to_bytes", t, longstr_to_bytes(t))

CallConsistency ==
  /\ enc = NoEnc
  /\ \E c \in ConsistencyNames :
       Called("consistency_to_bytes", c, consistency_to_bytes(c))

CallStrStrMap ==
  /\ enc = NoEnc
  /\ \E m \in EncMaps : Called("strstrmap_to_bytes", m, strstrmap_to_bytes(m))

\* Error messages of 0 to 3 * MaxTimes UTF-8 bytes, and one of 32767 bytes,
\* the longest a short string holds.
EncMessages ==
  {Text(u, t) : u \in EncUnits, t \in 0..MaxTimes} \cup {Text(<<97>>, SHRT_MAX)}

\* str(Response(...)) of a reply of any opcode whose body is that of an
\* Error frame, whole or cut after `cut` bytes.
CallResponseStr ==
  /\ enc = NoEnc
  /\ \E o \in OpCodeNames, c \in EncInts, m \in EncMessages,
        cut \in {0, 3, SHRT_MAX + 6} :
       LET body == SliceTo(ErrorBody(c, m), cut) IN
       Called("Response.__str__",
              [opcode |-> o, code |-> c, message |-> m, body |-> body],
              Response_str(Response(132, 0, 0, o, body)))

\* The result is dropped and another call can be made.
Forget ==
  /\ enc # NoEnc
  /\ enc' = NoEnc
  /\ UNCHANGED threads
  /\ UNCHANGED <<pc, step, sock, current_stream, streams, exc, raised_in, req,
                 frame, sent, nsends, outcomes>>
  /\ UNCHANGED mainVars
  /\ UNCHANGED exchangeVars
  /\ UNCHANGED peerVars

NextEnc ==
  \/ CallByte
  \/ CallShort
  \/ CallInt
  \/ CallShortStr
  \/ CallLongStr
  \/ CallConsistency
  \/ CallStrStrMap
  \/ CallResponseStr
  \/ Forget

SpecEnc == Init /\ [][NextEnc]_vars

\* ------------------------------------------- the session at 2**15 requests
\* main after 32767 exchanges, ids 0 to 32766, each answered with Ready: at
\* the prompt, the last line read being "USE x".
InitWrap ==
  LET last  == SHRT_MAX - 1
      query == Text(<<85, 83, 69, 32, 120>>, 1)
      r     == Request(last, "Query", QueryBody(query).val).payload
      ready == PeerFrame(last, 2, 0, <<>>)
      ans   == Response(132, 0, last, "Ready", <<>>)
  IN
  /\ pc = "prompt"
  /\ step = "prompt"
  /\ sock = "connected"
  /\ current_stream = SHRT_MAX
  /\ streams = [i \in 1..SHRT_MAX |-> i - 1]
  /\ line = query
  /\ prompts = SHRT_MAX - 3
  /\ exc = None
  /\ raised_in = None
  /\ req = r
  /\ frame = Payload_bytes(r).val
  /\ sent = Len(Payload_bytes(r).val)
  /\ nsends = SHRT_MAX
  /\ outcomes = [i \in 1..SHRT_MAX |-> "returned"]
  /\ hdr = [read |-> TRUE, bytes |-> SubSeq(ready.bytes, 1, HEADER_SIZE)]
  /\ head = unpack_header(SubSeq(ready.bytes, 1, HEADER_SIZE)).val
  /\ resp = ans
  /\ shown = Response_str(ans)
  /\ inbuf = <<>>
  /\ peer = "up"
  /\ reply = ready
  /\ replies = SHRT_MAX
  /\ enc = NoEnc
  /\ threads = [t \in Threads |-> NoThread]

NextWrap ==
  \/ Prompt
  \/ Quit
  \/ EndOfInput
  \/ RecvHeader
  \/ RecvBody
  \/ PeerReply
  \/ PeerClose
  \/ PeerReset

SpecWrap == InitWrap /\ [][NextWrap]_vars

\* ------------------------------------- Request(...) called from threads
\* What a thread's step leaves alone: all of the session.
ThreadStep(t, next) ==
  /\ threads' = [threads EXCEPT ![t] = next]
  /\ UNCHANGED <<pc, step, sock, streams, exc, raised_in, req, frame, sent,
                 nsends, outcomes, enc>>
  /\ UNCHANGED mainVars
  /\ UNCHANGED exchangeVars
  /\ UNCHANGED peerVars

\* super().__init__(0x04, 0x00, Request.__current_stream, opcode, body):
\* the counter is read and becomes the stream id of the new object.
ThreadConstruct ==
  \E t \in Threads :
    /\ threads[t].pc = "start"
    /\ ThreadStep(t, [threads[t] EXCEPT
         !.pc = "constructed",
         !.stream = Payload(4, 0, current_stream, "Query", <<>>).stream])
    /\ UNCHANGED current_stream

\* Request.__current_stream += 1, first half: the counter is read again.
ThreadLoad ==
  \E t \in Threads :
    /\ threads[t].pc = "constructed"
    /\ ThreadStep(t, [threads[t] EXCEPT !.pc = "loaded", !.seen = current_stream])
    /\ UNCHANGED current_stream

\* Request.__current_stream += 1, second half: the value read, plus one, is
\* stored.
ThreadStore ==
  \E t \in Threads :
    /\ threads[t].pc = "loaded"
    /\ current_stream' = threads[t].seen + 1
    /\ ThreadStep(t, [threads[t] EXCEPT !.pc = "done"])

NextThreads ==
  \/ ThreadConstruct
  \/ ThreadLoad
  \/ ThreadStore

SpecThreads == Init /\ [][NextThreads]_vars

\* ------------------------------------------------------------------ claims
LastOutcome == IF outcomes = <<>> THEN None ELSE outcomes[Len(outcomes)]

HasResponse == resp.opcode # "none"

HasHead == head.opecode # -1

\* The UTF-8 byte count of a text whose count is at most INT_MAX.
Utf8Len(t) == Len(encode(t).unit) * t.times

\* C1: the i-th Request constructed, counting from 0, has stream id i, and
\* the counter equals the number of Requests constructed, whatever became of
\* their exchanges.
C1_StreamIdsInConstructionOrder ==
  /\ \A i \in 1..Len(streams) : streams[i] = i - 1
  /\ current_stream = Len(streams)

\* Four Requests were constructed and the exchange of the fourth failed.
C1_Witness ==
  /\ Len(streams) = 4
  /\ streams[4] = 3
  /\ Len(outcomes) = 4
  /\ outcomes[4] = "raised"

\* C2: a Response returned by send_request has a body of exactly the number
\* of bytes the received header declares.
C2_BodyHasDeclaredLength ==
  (LastOutcome = "returned" /\ HasResponse) => Len(resp.body) = head.length

\* C3: the length field of every Payload is the byte count of its body, and
\* its serialization is the 9-byte header carrying that count in bytes 5-8
\* followed by the body, 9 + len(body) bytes in all.
C3_LengthIsBodySize ==
  /\ \A p \in {req, resp} :
       p.opcode # "none" =>
         /\ p.length = Len(p.body)
         /\ LET b == Payload_bytes(p) IN
            b.exc = None =>
              /\ Len(b.val) = HEADER_SIZE + Len(p.body)
              /\ ValueI(SubSeq(b.val, 6, 9)) = Len(p.body)
              /\ SubSeq(b.val, HEADER_SIZE + 1, Len(b.val)) = p.body
  /\ (nsends > 0 /\ nsends = Len(streams)) =>
       /\ Len(frame) = HEADER_SIZE + Len(req.body)
       /\ ValueI(SubSeq(frame, 6, 9)) = Len(req.body)

\* A Query was sent and a Response with a non-empty body came back.
C3_Witness ==
  /\ req.opcode = "Query"
  /\ nsends = Len(streams)
  /\ HasResponse
  /\ Len(resp.body) > 0

\* C4: send_request is reading the reply only when every byte of the
\* serialized request has been written.
C4_WholeFrameWrittenBeforeReading ==
  pc \in {"recv_header", "recv_body"} => sent = Len(frame)

\* C5: a header is decoded, and a Response returned, only from exactly 9
\* header bytes; when sock.recv(9) yields fewer the exchange ends with an
\* error and no Response.
C5_ShortHeaderRaises ==
  /\ HasHead => Len(hdr.bytes) = HEADER_SIZE
  /\ HasResponse => Len(hdr.bytes) = HEADER_SIZE
  /\ (hdr.read /\ Len(hdr.bytes) < HEADER_SIZE) =>
       /\ pc = "raised"
       /\ exc = "struct.error"
       /\ raised_in = "unpack"
       /\ LastOutcome = "raised"
       /\ ~HasResponse

\* The peer closed after some, but fewer than 9, header bytes, and the
\* exchange raised.
C5_Witness ==
  /\ peer = "closed"
  /\ inbuf = <<>>
  /\ hdr.read
  /\ Len(hdr.bytes) \in 1..(HEADER_SIZE - 1)
  /\ pc = "raised"
  /\ raised_in = "unpack"

\* C6: every Response returned has an opcode of the OpCode enumeration; a
\* header whose opcode byte is none of its values ends the exchange with a
\* ValueError and no Response.
C6_UnknownOpcodeRaises ==
  /\ HasResponse => resp.opcode \in OpCodeNames
  /\ (HasHead /\ ~\E n \in OpCodeNames : OpCodeValue(n) = head.opecode) =>
       /\ pc = "raised"
       /\ exc = "ValueError"
       /\ raised_in = "opcode"
       /\ LastOutcome = "raised"
       /\ ~HasResponse

\* A header with opcode 0x03 was received and the exchange raised.
C6_Witness ==
  /\ HasHead
  /\ head.opecode = 3
  /\ pc = "raised"
  /\ raised_in = "opcode"

\* The decoder of section 8: the 2-byte unsigned big-endian length n, and
\* the text of the n bytes that follow.
DecodeShortString(b) ==
  decode(SubSeq(b, 3, 2 + (b[1] * 256 + b[2])))

\* C7: for every string of at most 65535 UTF-8 bytes shortstr_to_bytes
\* succeeds, its result is the length as an unsigned 2-byte big-endian
\* prefix followed by the UTF-8 bytes, and decoding it gives the string back.
C7_ShortStringRoundTrip ==
  (enc.fn = "shortstr_to_bytes" /\ LenAtMost(encode(enc.arg), 65535)) =>
    /\ enc.res.exc = None
    /\ Len(enc.res.val) = 2 + Utf8Len(enc.arg)
    /\ enc.res.val[1] * 256 + enc.res.val[2] = Utf8Len(enc.arg)
    /\ SubSeq(enc.res.val, 3, Len(enc.res.val)) = Flat(encode(enc.arg))
    /\ DecodeShortString(enc.res.val).exc = None
    /\ DecodeShortString(enc.res.val).val = Flat(enc.arg)

\* Texts whose UTF-8 length a 2-byte prefix cannot hold.
TooLongForShort ==
  {Text(<<97>>, 65536), Text(<<233>>, 32768), Text(<<8364>>, 65535)} \cup HugeTexts

\* C8: a string whose UTF-8 length the prefix cannot represent makes the
\* encoder raise; in the session the line that overflows ends main with
\* struct.error before a Request is constructed or a byte of it written, and
\* the prefix of every query frame written is the true length of its line.
C8_OverflowSendsNothing ==
  /\ \A t \in TooLongForShort : shortstr_to_bytes(t).exc = "struct.error"
  /\ \A t \in HugeTexts : longstr_to_bytes(t).exc = "struct.error"
  /\ (prompts > 0 /\ ~startswith_q(line)
        /\ ~LenAtMost(encode(line), INT_MAX)) =>
       /\ pc = "raised"
       /\ exc = "struct.error"
       /\ raised_in = "encode"
       /\ nsends = 3 + (prompts - 1)
       /\ Len(streams) = nsends
       /\ Len(outcomes) = nsends
  /\ (step = "prompt" /\ nsends = 3 + prompts) =>
       /\ LenAtMost(encode(line), INT_MAX)
       /\ ValueI(SubSeq(frame, HEADER_SIZE + 1, HEADER_SIZE + 4)) = Utf8Len(line)
       /\ SubSeq(frame, HEADER_SIZE + 5, HEADER_SIZE + 4 + Utf8Len(line))
            = Flat(encode(line))
       /\ Len(frame) = HEADER_SIZE + 4 + Utf8Len(line) + 3

\* The operator typed a line of 2**31 UTF-8 bytes and main ended on it.
C8_Witness ==
  /\ line \in HugeTexts
  /\ pc = "raised"
  /\ raised_in = "encode"
  /\ nsends = 3

\* C9: a reply of opcode Error that send_request returned is displayed and
\* does not end the session.
C9_ErrorReplyDoesNotEndSession ==
  (HasResponse /\ resp.opcode = "Error") =>
    /\ shown.exc = None
    /\ raised_in # "display"

\* C10: the bytes of a request are written only when the exchange of every
\* earlier request has returned or raised.
C10_OneOutstandingRequest ==
  /\ \A k \in 1..(Len(outcomes) - 1) : outcomes[k] # "pending"
  /\ nsends <= Len(outcomes)

\* A second request is on the wire, the first exchange having returned.
C10_Witness ==
  /\ Len(outcomes) >= 2
  /\ outcomes[1] = "returned"
  /\ LastOutcome = "pending"
  /\ nsends = Len(outcomes)

\* The body of a QUERY message of section 8 for one statement: the long
\* string of the statement, consistency One (00 01) and query flags 00.
QueryWire(t) == BytesI(Utf8Len(t)) \o Flat(encode(t)) \o <<0, 1, 0>>

\* C11: the first Request constructed is the Startup, the second the Query
\* for system.local, the third the Query for system.peers, and every later
\* one the Query of the line just read, at consistency One with flags 00; a
\* line is read only after those three exchanges returned, a line that
\* begins with q ends the loop, and no Request is constructed for it.
C11_FixedRequestOrder ==
  /\ Len(streams) = 1 => (req.opcode = "Startup" /\ step = "startup")
  /\ Len(streams) = 2 =>
       (req.opcode = "Query" /\ req.body = QueryWire(SELECT_LOCAL))
  /\ Len(streams) = 3 =>
       (req.opcode = "Query" /\ req.body = QueryWire(SELECT_PEERS))
  /\ Len(streams) >= 4 => req.opcode = "Query"
  /\ (prompts > 0 /\ Len(streams) = 3 + prompts) =>
       (~startswith_q(line) /\ req.body = QueryWire(line))
  /\ prompts > 0 =>
       /\ Len(streams) >= 3
       /\ \A k \in 1..3 : outcomes[k] = "returned"
       /\ Len(streams) <= 3 + prompts
       /\ startswith_q(line) =>
            (pc = "done" /\ Len(streams) = 3 + (prompts - 1) /\ nsends = Len(streams))
  /\ pc = "done" => (prompts > 0 /\ startswith_q(line))

\* One line was sent as the fourth request and the next line, q, ended the
\* session.
C11_Witness ==
  /\ pc = "done"
  /\ prompts = 2
  /\ Len(streams) = 4
  /\ nsends = 4
  /\ req.body = QueryWire(Text(<<85, 83, 69, 32, 120>>, 1))

\* The statements at which main holds a connected socket.
Running == {"startup", "local", "peer", "prompt", "recv_header", "recv_body"}

\* C12: the socket is connected exactly while main is between its one
\* connect and its exit, and is closed once main has ended, by quit or by
\* an exception raised in connect, in an encoder, in input or in an exchange.
C12_SocketClosedOnEveryExit ==
  /\ sock \in {"open", "connected", "closed"}
  /\ pc \in {"done", "raised"} => sock = "closed"
  /\ sock = "closed" => pc \in {"done", "raised"}
  /\ sock = "open" <=> pc = "connect"
  /\ sock = "connected" <=> pc \in Running
  /\ (pc = "raised" /\ raised_in = "connect") => (nsends = 0 /\ streams = <<>>)

\* main ended on the struct.error of an encoder, after three exchanges on
\* the connection.
C12_Witness ==
  /\ pc = "raised"
  /\ raised_in = "encode"
  /\ exc = "struct.error"
  /\ sock = "closed"
  /\ outcomes = <<"returned", "returned", "returned">>

\* 00 01, 00 0B "CQL_VERSION", 00 05 "3.0.0": one entry, a key of 11 bytes
\* and a value of 5 bytes.
StartupBody ==
  <<0, 1, 0, 11, 67, 81, 76, 95, 86, 69, 82, 83, 73, 79, 78,
    0, 5, 51, 46, 48, 46, 48>>

\* C13 as stated: the first frame of a session is the header
\* 04 00 00 00 01 00 00 00 1D followed by the 22 bytes of StartupBody.
C13_StartupFrameAsStated ==
  Len(streams) = 1 => frame = <<4, 0, 0, 0, 1, 0, 0, 0, 29>> \o StartupBody

\* C13: the Startup request built as the first Request of a process from
\* {"CQL_VERSION": "3.0.0"} serializes to the header 04 00 00 00 01 00 00 00 16
\* followed by the 22 bytes of StartupBody; the length field is the size of
\* the body, 0x16.
C13_StartupFrame ==
  Len(streams) = 1 =>
    /\ req.body = StartupBody
    /\ req.length = Len(StartupBody)
    /\ frame = <<4, 0, 0, 0, 1, 0, 0, 0, 22>> \o StartupBody

\* The Startup request is the only one constructed and all of its 31 bytes
\* have been written.
C13_Witness ==
  /\ Len(streams) = 1
  /\ req.opcode = "Startup"
  /\ nsends = 1
  /\ sent = Len(frame)
  /\ Len(frame) = HEADER_SIZE + Len(StartupBody)

HexChars ==
  <<"0", "1", "2", "3", "4", "5", "6", "7",
    "8", "9", "a", "b", "c", "d", "e", "f">>

\* The number a sequence of hexadecimal digits denotes, negated.
RECURSIVE NegHexValue(_)
NegHexValue(digits) ==
  IF digits = <<>> THEN 0
  ELSE NegHexValue(SubSeq(digits, 1, Len(digits) - 1)) * 16
         - ((CHOOSE d \in 1..16 : HexChars[d] = digits[Len(digits)]) - 1)

\* The integer the display "0x..." or "-0x..." denotes.
HexValue(chars) ==
  IF chars[1] = "-"
  THEN NegHexValue(SubSeq(chars, 4, Len(chars)))
  ELSE -NegHexValue(SubSeq(chars, 3, Len(chars)))

\* C14: the display of a Response of opcode Error whose body is
\* int(code) ++ shortString(message) carries the code, the signed 32-bit
\* big-endian value of body bytes 0-3, and exactly the message; the display
\* of a Response of any other opcode carries neither.
C14_ErrorDisplay ==
  enc.fn = "Response.__str__" =>
    /\ (enc.arg.opcode = "Error"
          /\ enc.arg.body =
               BytesI(enc.arg.code)
                 \o <<Utf8Len(enc.arg.message) \div 256,
                      Utf8Len(enc.arg.message) % 256>>
                 \o Flat(encode(enc.arg.message))) =>
         /\ enc.res.exc = None
         /\ Len(enc.res.val.additional) = 2
         /\ HexValue(enc.res.val.additional[1]) = enc.arg.code
         /\ HexValue(enc.res.val.additional[1])
              = ValueI(SubSeq(enc.arg.body, 1, 4))
         /\ enc.res.val.additional[2] = Flat(enc.arg.message)
    /\ enc.arg.opcode # "Error" =>
         /\ enc.res.exc = None
         /\ enc.res.val.additional = <<>>

\* The display of an Error with code -2**31 and the message "aé".
C14_Witness ==
  /\ enc.fn = "Response.__str__"
  /\ enc.arg.opcode = "Error"
  /\ enc.arg.code = -INT_MAX - 1
  /\ enc.arg.message = Text(<<97, 233>>, 1)
  /\ enc.arg.body = <<128, 0, 0, 0, 0, 3, 97, 195, 169>>
  /\ enc.res.exc = None
  /\ enc.res.val.additional[2] = <<97, 233>>

\* C15: when a call of send_request has returned, the k-th call has consumed
\* exactly the k-th frame of the peer: the header decoded is the 9 header
\* bytes of that frame, the Response carries its header fields and its whole
\* body, and no byte of it is left in the stream for the next call.
C15_FramesConsumedOneByOne ==
  LastOutcome = "returned" =>
    /\ replies = Len(outcomes)
    /\ hdr.bytes = SubSeq(reply.bytes, 1, HEADER_SIZE)
    /\ OpCodeValue(resp.opcode) = reply.opcode
    /\ resp.stream = Len(outcomes) - 1
    /\ resp.body = reply.body
    /\ Len(resp.body) = reply.length
    /\ inbuf = <<>>

\* C16: the Requests that threads have constructed have pairwise distinct
\* stream ids, and when every thread has returned from Request(...) the
\* counter equals the number of Requests constructed.
C16_ConcurrentConstructionIsAtomic ==
  /\ \A t \in Threads : \A u \in Threads :
       (t # u /\ threads[t].pc # "start" /\ threads[u].pc # "start") =>
         threads[t].stream # threads[u].stream
  /\ (\A t \in Threads : threads[t].pc = "done") =>
       current_stream = Cardinality(Threads)

\* The steps of send_request that can raise.
ExchangeSteps == {"serialize", "send", "recv_header", "unpack", "opcode", "recv_body"}

C18_CounterDoesNotWrap ==
  /\ current_stream = Len(streams)
  /\ Len(streams) > 0 =>
       /\ streams[Len(streams)] = Len(streams) - 1
       /\ req.stream = current_stream - 1
  /\ req.stream > SHRT_MAX =>
       /\ req.stream = SHRT_MAX + 1
       /\ current_stream = SHRT_MAX + 2
       /\ pc = "raised"
       /\ exc = "struct.error"
       /\ raised_in = "serialize"
       /\ nsends = SHRT_MAX + 1
  /\ nsends > 0 =>
       /\ ValueH(SubSeq(frame, 3, 4)) = nsends - 1
       /\ ValueH(SubSeq(frame, 3, 4)) >= 0

\* The Request of stream id 32768 exists and main ended in bytes(payload).
C18_Witness ==
  /\ req.stream = SHRT_MAX + 1
  /\ current_stream = SHRT_MAX + 2
  /\ pc = "raised"
  /\ raised_in = "serialize"
  /\ nsends = SHRT_MAX + 1
  /\ frame[3] = 127
  /\ frame[4] = 255

\* C19: an exception raised anywhere in main ends main: the call that raised
\* is the last call of send_request, the line that could not be encoded is
\* the last line read, and no Request exists beyond those of the exchanges
\* made; main is at a later statement only when the last call of
\* send_request returned a Response that could be printed.
C19_FailureIsFatal ==
  /\ exc # None <=> pc = "raised"
  /\ LastOutcome = "raised" => pc = "raised"
  /\ pc = "raised" =>
       /\ sock = "closed"
       /\ Len(streams) = Len(outcomes)
       /\ \A k \in 1..(Len(outcomes) - 1) : outcomes[k] = "returned"
       /\ raised_in \in ExchangeSteps => LastOutcome = "raised"
       /\ raised_in = "display" => (LastOutcome = "returned" /\ shown.exc # None)
       /\ raised_in = "encode" =>
            (prompts > 0 /\ Len(streams) = 3 + (prompts - 1))
       /\ raised_in \in ExchangeSteps \cup {"display"} =>
            prompts = (IF Len(streams) > 3 THEN Len(streams) - 3 ELSE 0)
  /\ pc \in {"local", "peer", "prompt", "done"} =>
       /\ LastOutcome = "returned"
       /\ HasResponse
       /\ shown.exc = None
       /\ \A k \in 1..Len(outcomes) : outcomes[k] = "returned"

\* The second exchange raised on an opcode that OpCode does not list: two
\* Requests exist, two frames were written and no line was read.
C19_Witness ==
  /\ pc = "raised"
  /\ raised_in = "opcode"
  /\ exc = "ValueError"
  /\ Len(streams) = 2
  /\ nsends = 2
  /\ prompts = 0
  /\ outcomes = <<"returned", "raised">>

====
